---- MODULE Spec2Model ----
(***************************************************************************)
(* Model of jnpr.junos.utils.config.Config (lib/jnpr/junos/utils/config.py) *)
(*                                                                         *)
(* Config keeps no fields of its own: every method is one synchronous      *)
(* request against the device.  A behaviour of the model is one method     *)
(* call: the arguments are drawn from bounded sets, the answers of the     *)
(* collaborators (file system, template engine, XML parser, device RPC)    *)
(* are drawn from the outcomes they can produce, and the state after the   *)
(* step records the arguments, the remote calls issued and the outcome     *)
(* (returned value or raised exception).                                   *)
(*                                                                         *)
(* Text is modelled as a sequence of tokens.  A token is one character,    *)
(* or one whole word that the code compares against (a set-style keyword,  *)
(* a file extension name); the regular expressions and os.path.splitext    *)
(* are computed on these sequences position by position.                   *)
(***************************************************************************)
EXTENDS Integers, Sequences, FiniteSets, TLC

VARIABLES
    pc,         \* "idle" before the call, "done" after it
    call,       \* the method called and its arguments
    rpcs,       \* the remote calls the method issued, in order
    answer,     \* what the device answered to the remote call, if one was issued
    outcome     \* how the method ended: the value returned or the exception raised

vars == <<pc, call, rpcs, answer, outcome>>

-----------------------------------------------------------------------------
(* Bounds of the model *)

MaxStrLen == 2      \* longest enumerated content string, in tokens
MaxPathLen == 2     \* longest enumerated path, in tokens
MaxConfirm == 12    \* largest enumerated confirm minute count
IdMargin == 3       \* rollback ids are enumerated this far beyond both ends of the range

-----------------------------------------------------------------------------
(* Optional values: <<>> is "not there" (None, missing key), <<v>> is v *)

Absent == <<>>
Some(v) == <<v>>
Has(o) == o # <<>>
Get(o) == o[1]

RECURSIVE SeqsUpTo(_, _)
SeqsUpTo(S, n) ==
    IF n = 0 THEN {<<>>}
    ELSE LET shorter == SeqsUpTo(S, n - 1)
         IN shorter \cup {Append(s, c) : s \in shorter, c \in S}

-----------------------------------------------------------------------------
(* Content strings *)

Keywords == {"set", "delete", "replace", "rename"}
Letters == {"x"}
Digits == {"1"}
Spaces == {" ", "\n"}
StrChar == Keywords \cup Letters \cup Digits \cup Spaces
             \cup {"<", ">", "{", "}", ";"}

IsSpace(c) == c \in Spaces                          \* \s
IsWord(c) == c \in Keywords \cup Letters \cup Digits \* \w
IsAlphaColon(c) == c \in Keywords \cup Letters      \* [a-z:] under re.I

\* re.search(r'^\s*<.*>$', rpc, re.MULTILINE)
ReXml(s) ==
    \E i \in 1..Len(s) :
        /\ s[i] = "<"
        /\ \E j \in 1..i :
              /\ (j = 1 \/ s[j-1] = "\n")
              /\ \A k \in j..(i-1) : IsSpace(s[k])
        /\ \E m \in (i+1)..Len(s) :
              /\ s[m] = ">"
              /\ \A k \in (i+1)..(m-1) : s[k] # "\n"
              /\ (m = Len(s) \/ s[m+1] = "\n")

\* re.search(r'^\s*(set|delete|replace|rename)\s', rpc)
ReSet(s) ==
    \E i \in 1..(Len(s) - 1) :
        /\ \A k \in 1..(i-1) : IsSpace(s[k])
        /\ s[i] \in Keywords
        /\ IsSpace(s[i+1])

\* re.search(r'^[a-z:]*\s*\w+\s+{', rpc, re.I) and re.search(r'.*}\s*$', rpc)
ReText(s) ==
    /\ \E a \in 0..Len(s) : \E b \in a..Len(s) :
       \E c \in (b+1)..Len(s) : \E d \in (c+2)..Len(s) :
          /\ \A k \in 1..a : IsAlphaColon(s[k])
          /\ \A k \in (a+1)..b : IsSpace(s[k])
          /\ \A k \in (b+1)..c : IsWord(s[k])
          /\ \A k \in (c+1)..(d-1) : IsSpace(s[k])
          /\ s[d] = "{"
    /\ \E i \in 1..Len(s) :
          /\ s[i] = "}"
          /\ \A k \in (i+1)..Len(s) : IsSpace(s[k])

\* a variant of _lset_from_rexp that tries the set-style test first
LsetFromRexpSetFirst(s) ==
    IF ReSet(s) THEN Some("set")
    ELSE IF ReXml(s) THEN Some("xml")
    ELSE IF ReText(s) THEN Some("text")
    ELSE Absent

\* _lset_from_rexp: the format put into kvargs, or Absent when no test matches
LsetFromRexp(s) ==
    IF ReXml(s) THEN Some("xml")
    ELSE IF ReSet(s) THEN Some("set")
    ELSE IF ReText(s) THEN Some("text")
    ELSE Absent

SampleStrings ==
    { <<"<", "x", ">", "x", "<", ";", "x", ">">>,            \* <a>b</a>
      <<"set", " ", "x", " ", "x", ";", "x", " ", "x">>,       \* set system host-name foo
      <<"x", " ", "{", "\n", " ", "x", ";", "x", " ", "x", ";", "\n", "}">>,
      <<"x", " ", "x", " ", "x">>,                             \* just a sentence
      <<"x", " ", "{", "}">>,
      <<"x", "{", "}">>,
      <<"set", "\n", "<", ">">>,                               \* set and xml shapes
      <<"set", " ", "{", "}">>,                                \* set and text shapes
      <<"x", " ", "{", "\n", "<", ">", "\n", "}">>,            \* xml and text shapes
      <<"set", " ", "{", "\n", "<", ">", "\n", "}">> }         \* all three shapes

Strings == SeqsUpTo(StrChar, MaxStrLen) \cup SampleStrings

-----------------------------------------------------------------------------
(* Paths and os.path.splitext *)

ExtNames == {"xml", "conf", "text", "txt", "set"}
PathChar == {"/", ".", "a"} \cup ExtNames

\* str.rfind: the last position of c in p, 0 when there is none
RFind(p, c) ==
    IF \E i \in 1..Len(p) : p[i] = c
    THEN CHOOSE i \in 1..Len(p) : p[i] = c /\ \A k \in (i+1)..Len(p) : p[k] # c
    ELSE 0

\* os.path.splitext(path)[1]: from the last dot of the last component on,
\* unless only dots precede it in that component
SplitExt(p) ==
    LET sepIndex == RFind(p, "/")
        dotIndex == RFind(p, ".")
    IN IF /\ dotIndex > sepIndex
          /\ \E k \in (sepIndex+1)..(dotIndex-1) : p[k] # "."
       THEN SubSeq(p, dotIndex, Len(p))
       ELSE <<>>

\* _lformat_byext: the format, or Absent where the code raises ValueError
LformatByExt(path) ==
    LET ext == SplitExt(path)
    IN IF ext = <<".", "xml">> THEN Some("xml")
       ELSE IF ext \in {<<".", "conf">>, <<".", "text">>, <<".", "txt">>} THEN Some("text")
       ELSE IF ext \in {<<".", "set">>} THEN Some("set")
       ELSE Absent

SamplePaths ==
    { <<"a", ".", "xml">>, <<"a", ".", "conf">>, <<"a", ".", "text">>,
      <<"a", ".", "txt">>, <<"a", ".", "set">>, <<"a", ".", "a">>,
      <<"a", ".", "set", "/", "a">>, <<"a", ".", "xml", ".", "set">>,
      <<"a", ".", "set", ".", "xml">>, <<"a", "/", ".", "set">>,
      <<"a", ".", "txt", "set">> }

Paths == SeqsUpTo(PathChar, MaxPathLen) \cup SamplePaths

-----------------------------------------------------------------------------
(* Documents, values and exceptions *)

Tags == {"ok", "rpc-error"}

\* an XML document: element is FALSE for a value that is no etree element,
\* ns tells whether its tags still carry the protocol namespace
Doc(element, ns, tags) == [element |-> element, ns |-> ns, tags |-> tags]
RspDocs == {Doc(TRUE, FALSE, t) : t \in SUBSET Tags}
XmlDocs == {Doc(TRUE, n, t) : n \in BOOLEAN, t \in SUBSET Tags}
NonElement == Doc(FALSE, FALSE, {})
Reply == Doc(TRUE, FALSE, {"ok"})

\* doc.find(tag) is not None
Find(doc, tag) == tag \in doc.tags

\* JXML.remove_namespaces
RemoveNamespaces(doc) == [doc EXCEPT !.ns = FALSE]

\* values a method returns
PyTrue == [type |-> "bool", b |-> TRUE]
PyFalse == [type |-> "bool", b |-> FALSE]
PyNone == [type |-> "none"]
DocVal(d) == [type |-> "doc", doc |-> d]
\* JXML.rpc_error: the mapping of the parsed fields of an error document
RpcErrorDict(doc) == [type |-> "dict", of |-> doc]

NoMsg == [text |-> "", arg |-> <<>>]
Exc(cls, mro, msg, cmd, rsp, errs, xml) ==
    [cls |-> cls, mro |-> mro, msg |-> msg, cmd |-> cmd, rsp |-> rsp,
     errs |-> errs, xml |-> xml]

\* exceptions of the Python runtime and library: no cmd, rsp, errs or xml
PyExc(cls, text, arg) ==
    Exc(cls, {cls}, [text |-> text, arg |-> arg], Absent, Absent, Absent, Absent)

\* the domain errors built by this module: jnpr.junos.exception classes,
\* all of them RpcError subclasses
DomainExc(cls, cmd, rsp, errs) ==
    Exc(cls, {cls, "RpcError"}, NoMsg, cmd, rsp, errs, Absent)

\* what a remote call can raise: a structured protocol error (RpcError with
\* command, response and parsed errors), a timeout (RpcTimeoutError, an
\* RpcError subclass), or any other exception, with or without an xml attribute
StructuredErrors ==
    {Exc("RpcError", {"RpcError"}, NoMsg, Some("cmd"), Some(d), Some("errs"), Absent) :
        d \in RspDocs}
TimeoutErrors ==
    {Exc("RpcTimeoutError", {"RpcTimeoutError", "RpcError"}, NoMsg, Some("cmd"),
         Some(d), Absent, Absent) : d \in RspDocs}
OpaqueErrors ==
    {Exc("OpaqueError", {"OpaqueError"}, NoMsg, Absent, Absent, Absent, x) :
        x \in {Absent, Some(NonElement)} \cup {Some(d) : d \in XmlDocs}}
RpcErrors == StructuredErrors \cup TimeoutErrors \cup OpaqueErrors

IsInstance(err, cls) == cls \in err.mro
HasAttr(err, name) == IF name = "xml" THEN Has(err.xml) ELSE TRUE

\* the answer of one remote call
RpcOk(d) == [ok |-> TRUE, doc |-> d, err |-> PyExc("none", "", <<>>)]
RpcRaise(e) == [ok |-> FALSE, doc |-> Reply, err |-> e]
\* the result of a method: the remote calls it issued and how it ended
Return(calls, v) == [rpcs |-> calls, kind |-> "return", val |-> v, exc |-> PyExc("none", "", <<>>)]
Raise(calls, e) == [rpcs |-> calls, kind |-> "raise", val |-> PyNone, exc |-> e]

-----------------------------------------------------------------------------
(* load *)

\* the content handed to the device: a string, or an XML element (passed by
\* the caller, or parsed from a string by etree.XML)
StrContent(s) == [kind |-> "str", text |-> s]
EtreeXML(s) == [kind |-> "element", text |-> s]
XmlObject == [kind |-> "element", text |-> <<>>]

\* a variant that leaves action=replace in place when merge is asked for
InitXattrsMergeKeepsAction(overwrite, merge) ==
    [format |-> "xml",
     action |-> IF overwrite THEN Some("override") ELSE Some("replace")]

\* rpc_xattrs after the overwrite / merge flags are read
InitXattrs(overwrite, merge) ==
    [format |-> "xml",
     action |-> IF overwrite THEN Some("override")
                ELSE IF merge THEN Absent
                ELSE Some("replace")]

\* a variant of _lset_format that sends set-style under the format name 'set'
LsetFormatNoDowngrade(format, overwrite, xattrs) ==
    IF format = "set"
    THEN IF overwrite
         THEN [raised |-> TRUE, format |-> format, xattrs |-> xattrs]
         ELSE [raised |-> FALSE, format |-> "set",
               xattrs |-> [format |-> "set", action |-> Some("set")]]
    ELSE [raised |-> FALSE, format |-> format,
          xattrs |-> [xattrs EXCEPT !.format = format]]

\* a variant of _lset_format without the overwrite check
LsetFormatNoConflict(format, overwrite, xattrs) ==
    IF format = "set"
    THEN [raised |-> FALSE, format |-> "text",
          xattrs |-> [xattrs EXCEPT !.format = "text"]]
    ELSE [raised |-> FALSE, format |-> format,
          xattrs |-> [xattrs EXCEPT !.format = format]]

\* _lset_format: raised, or the new kvargs['format'] and rpc_xattrs
LsetFormat(format, overwrite, xattrs) ==
    IF format = "set"
    THEN IF overwrite
         THEN [raised |-> TRUE, format |-> format, xattrs |-> xattrs]
         ELSE [raised |-> FALSE, format |-> "text",
               xattrs |-> [format |-> "text", action |-> Some("set")]]
    ELSE [raised |-> FALSE, format |-> format,
          xattrs |-> [xattrs EXCEPT !.format = format]]

ConflictingArgs ==
    PyExc("ValueError", "conflicting args, cannot use 'set' with 'overwrite'", <<>>)
UnknownExtension(ext) ==
    PyExc("ValueError", "Unknown file contents from extension: %s", ext)
UnresolvedFormat ==
    PyExc("RuntimeError", "Not able to resolve the config format You must define the format of the contents explicitly to the function. Ex: format='set'", <<>>)
UnhandledLoad == PyExc("RuntimeError", "Unhandled load request", <<>>)
XMLSyntaxError == PyExc("XMLSyntaxError", "", <<>>)
IOError == PyExc("IOError", "", <<>>)
TemplateError == PyExc("TemplateError", "", <<>>)

LoadRequest(contents, xattrs) ==
    [rpc |-> "load_config", contents |-> contents,
     format |-> xattrs.format, action |-> xattrs.action]

\* try_load
TryLoad(contents, xattrs, rpc) ==
    LET req == <<LoadRequest(contents, xattrs)>>
    IN IF rpc.ok THEN Return(req, DocVal(rpc.doc))
       ELSE IF IsInstance(rpc.err, "RpcError")
       THEN Raise(req, DomainExc("ConfigLoadError", rpc.err.cmd, rpc.err.rsp, rpc.err.errs))
       ELSE Raise(req, rpc.err)

\* the string is parsed when the format is 'xml', then loaded
ParseAndLoad(text, isxml, xattrs, env) ==
    IF isxml
    THEN IF env.parse_ok THEN TryLoad(EtreeXML(text), xattrs, env.rpc)
         ELSE Raise(<<>>, XMLSyntaxError)
    ELSE TryLoad(StrContent(text), xattrs, env.rpc)

\* lines 361-377: the content is vargs[0]; kvformat and xattrs are
\* kvargs['format'] and rpc_xattrs as line 355 left them
LoadDirect(content, kvformat, overwrite, xattrs, env) ==
    IF content.kind = "str"
    THEN IF Has(kvformat)
         THEN ParseAndLoad(content.text, Get(kvformat) = "xml", xattrs, env)
         ELSE LET found == LsetFromRexp(content.text)
              IN IF Has(found)
                 THEN LET f == LsetFormat(Get(found), overwrite, xattrs)
                      IN IF f.raised THEN Raise(<<>>, ConflictingArgs)
                         ELSE ParseAndLoad(content.text, f.format = "xml", f.xattrs, env)
                 ELSE Raise(<<>>, UnresolvedFormat)
    ELSE TryLoad(content, xattrs, env.rpc)

\* a variant of the file branches that consults the extension even when the
\* format was given
LoadFromFileByExtAlways(path, ioerror, kvformat, overwrite, xattrs, env) ==
    IF ~env.io_ok THEN Raise(<<>>, ioerror)
    ELSE LET found == LformatByExt(path)
         IN IF Has(found)
            THEN LET f == LsetFormat(Get(found), overwrite, xattrs)
                 IN IF f.raised THEN Raise(<<>>, ConflictingArgs)
                    ELSE ParseAndLoad(env.text, f.xattrs.format = "xml", f.xattrs, env)
            ELSE Raise(<<>>, UnknownExtension(SplitExt(path)))

\* lines 384-429: the content is read from a file or rendered from a
\* template, then _lset_fromfile(path) sets the format when none was given
LoadFromFile(path, ioerror, kvformat, overwrite, xattrs, env) ==
    IF ~env.io_ok THEN Raise(<<>>, ioerror)
    ELSE IF Has(kvformat)
    THEN ParseAndLoad(env.text, xattrs.format = "xml", xattrs, env)
    ELSE LET found == LformatByExt(path)
         IN IF Has(found)
            THEN LET f == LsetFormat(Get(found), overwrite, xattrs)
                 IN IF f.raised THEN Raise(<<>>, ConflictingArgs)
                    ELSE ParseAndLoad(env.text, f.xattrs.format = "xml", f.xattrs, env)
            ELSE Raise(<<>>, UnknownExtension(SplitExt(path)))

\* a variant of load that looks for path before the direct content
LoadPathFirst(c, env) ==
    LET x0 == InitXattrs(c.overwrite, c.merge)
        f == IF Has(c.format) THEN LsetFormat(Get(c.format), c.overwrite, x0)
             ELSE [raised |-> FALSE, format |-> "", xattrs |-> x0]
        kvformat == IF Has(c.format) THEN Some(f.format) ELSE Absent
    IN IF f.raised THEN Raise(<<>>, ConflictingArgs)
       ELSE IF Has(c.path)
       THEN LoadFromFile(Get(c.path), IOError, kvformat, c.overwrite, f.xattrs, env)
       ELSE IF Has(c.vargs)
       THEN LoadDirect(Get(c.vargs), kvformat, c.overwrite, f.xattrs, env)
       ELSE IF Has(c.template_path)
       THEN LoadFromFile(Get(c.template_path), TemplateError, kvformat, c.overwrite, f.xattrs, env)
       ELSE IF Has(c.template)
       THEN LoadFromFile(Get(c.template), TemplateError, kvformat, c.overwrite, f.xattrs, env)
       ELSE Raise(<<>>, UnhandledLoad)

\* Config.load(*vargs, **kvargs)
Load(c, env) ==
    LET x0 == InitXattrs(c.overwrite, c.merge)
        f == IF Has(c.format) THEN LsetFormat(Get(c.format), c.overwrite, x0)
             ELSE [raised |-> FALSE, format |-> "", xattrs |-> x0]
        kvformat == IF Has(c.format) THEN Some(f.format) ELSE Absent
    IN IF f.raised THEN Raise(<<>>, ConflictingArgs)
       ELSE IF Has(c.vargs)
       THEN LoadDirect(Get(c.vargs), kvformat, c.overwrite, f.xattrs, env)
       ELSE IF Has(c.path)
       THEN LoadFromFile(Get(c.path), IOError, kvformat, c.overwrite, f.xattrs, env)
       ELSE IF Has(c.template_path)
       THEN LoadFromFile(Get(c.template_path), TemplateError, kvformat, c.overwrite, f.xattrs, env)
       ELSE IF Has(c.template)
       THEN LoadFromFile(Get(c.template), TemplateError, kvformat, c.overwrite, f.xattrs, env)
       ELSE Raise(<<>>, UnhandledLoad)

\* the arguments of a load call
LoadCall(vargs, format, overwrite, merge, path, template_path, template) ==
    [op |-> "load", vargs |-> vargs, format |-> format, overwrite |-> overwrite,
     merge |-> merge, path |-> path, template_path |-> template_path,
     template |-> template]

Formats == {"xml", "text", "set"}
FormatArgs == {Absent} \cup {Some(f) : f \in Formats}
Contents == {XmlObject} \cup {StrContent(s) : s \in Strings}
SampleContent == StrContent(<<"x", " ", "{", "}">>)
SamplePath == <<"a", ".", "set">>
SampleTemplatePath == <<"a", ".", "txt">>
SampleTemplate == <<"a", ".", "xml">>

\* one source with every value of its domain, or any subset of the four
\* sources (none, several) with a sample value each, a different one for
\* each source
LoadSources ==
    {<<Some(v), Absent, Absent, Absent>> : v \in Contents}
    \cup {<<Absent, Some(p), Absent, Absent>> : p \in Paths}
    \cup {<<Absent, Absent, Some(p), Absent>> : p \in Paths}
    \cup {<<Absent, Absent, Absent, Some(p)>> : p \in Paths}
    \cup ({Absent, Some(SampleContent)} \X {Absent, Some(SamplePath)}
            \X {Absent, Some(SampleTemplatePath)} \X {Absent, Some(SampleTemplate)})

\* what the file system or the template engine yields
FileTexts == {<<"<", "x", ">">>, <<"set", " ", "x">>}

\* what the device answers to load_config
LoadRpcOutcomes ==
    {RpcOk(Reply)} \cup
    {RpcRaise(e) : e \in
        {x \in RpcErrors : /\ Has(x.rsp) => Get(x.rsp).tags = {"rpc-error"}
                           /\ Has(x.xml) => Get(x.xml) = Doc(TRUE, TRUE, {"rpc-error"})}}

LoadEnvs ==
    [io_ok : BOOLEAN, parse_ok : BOOLEAN, text : FileTexts, rpc : LoadRpcOutcomes]

-----------------------------------------------------------------------------
(* commit, commit_check *)

\* Python values of the confirm option: True, or a minute count
PyInt(n) == [type |-> "int", n |-> n]

\* the truth value Python gives to an optional argument (kvargs.get(...))
Truthy(o) ==
    /\ Has(o)
    /\ Get(o).type = "bool" => Get(o).b
    /\ Get(o).type = "int" => Get(o).n # 0
    /\ Get(o).type = "str" => Get(o).text # <<>>

DigitChar(d) == <<"0", "1", "2", "3", "4", "5", "6", "7", "8", "9">>[d + 1]

RECURSIVE DecimalDigits(_)
DecimalDigits(n) ==
    IF n < 10 THEN <<DigitChar(n)>>
    ELSE Append(DecimalDigits(n \div 10), DigitChar(n % 10))

\* str(v) of a bool or an int
Str(v) ==
    IF v.type = "bool" THEN (IF v.b THEN <<"True">> ELSE <<"False">>)
    ELSE IF v.n < 0 THEN <<"-">> \o DecimalDigits(0 - v.n)
    ELSE DecimalDigits(v.n)

PyStr(text) == [type |-> "str", text |-> text]

\* a variant of rpc_args that sends str(confirm) as the timeout even for True,
\* and force-synchronize without synchronize
CommitArgsLoose(c) ==
    [log |-> IF Truthy(c.comment) THEN c.comment ELSE Absent,
     confirmed |-> IF Truthy(c.confirm) THEN Some(TRUE) ELSE Absent,
     confirm_timeout |->
        IF Truthy(c.confirm) THEN Some(Str(Get(c.confirm))) ELSE Absent,
     dev_timeout |-> IF Truthy(c.timeout) THEN c.timeout ELSE Absent,
     synchronize |-> IF c.sync THEN Some(TRUE) ELSE Absent,
     force_synchronize |-> IF c.force_sync THEN Some(TRUE) ELSE Absent,
     full |-> IF c.full THEN Some(TRUE) ELSE Absent]

\* rpc_args as lines 74-109 build it; a key that is not set is Absent
CommitArgs(c) ==
    [log |-> IF Truthy(c.comment) THEN c.comment ELSE Absent,
     confirmed |-> IF Truthy(c.confirm) THEN Some(TRUE) ELSE Absent,
     confirm_timeout |->
        IF Truthy(c.confirm) /\ Str(Get(c.confirm)) # <<"True">>
        THEN Some(Str(Get(c.confirm))) ELSE Absent,
     dev_timeout |-> IF Truthy(c.timeout) THEN c.timeout ELSE Absent,
     synchronize |-> IF c.force_sync \/ c.sync THEN Some(TRUE) ELSE Absent,
     force_synchronize |-> IF c.force_sync THEN Some(TRUE) ELSE Absent,
     full |-> IF c.full THEN Some(TRUE) ELSE Absent]

\* rpc_varg, lines 111-114
CommitVarg(c) == IF c.detail THEN <<"detail">> ELSE <<>>

CommitRequest(varg, args) ==
    [rpc |-> "commit_configuration", varg |-> varg, args |-> args]

AttributeError(name) == PyExc("AttributeError", "object has no attribute", <<name>>)

\* a variant of the except clauses of commit without the RpcTimeoutError clause
CommitFailureNoTimeoutClause(req, err) ==
    IF IsInstance(err, "RpcError")
    THEN IF Find(Get(err.rsp), "ok") THEN Return(req, PyTrue)
         ELSE Raise(req, DomainExc("CommitError", err.cmd, err.rsp, Absent))
    ELSE IF HasAttr(err, "xml") /\ Get(err.xml).element
    THEN Raise(req, DomainExc("CommitError", Absent, err.xml, Absent))
    ELSE Raise(req, err)

\* the except clauses of commit, lines 121-135
CommitFailure(req, err) ==
    IF IsInstance(err, "RpcTimeoutError") THEN Raise(req, err)
    ELSE IF IsInstance(err, "RpcError")
    THEN IF Find(Get(err.rsp), "ok") THEN Return(req, PyTrue)
         ELSE Raise(req, DomainExc("CommitError", err.cmd, err.rsp, Absent))
    ELSE IF HasAttr(err, "xml") /\ Get(err.xml).element
    THEN Raise(req, DomainExc("CommitError", Absent, err.xml, Absent))
    ELSE Raise(req, err)

\* Config.commit(**kvargs)
Commit(c, rpc) ==
    LET req == <<CommitRequest(CommitVarg(c), CommitArgs(c))>>
    IN IF rpc.ok
       THEN Return(req, IF c.detail THEN DocVal(rpc.doc) ELSE PyTrue)
       ELSE CommitFailure(req, rpc.err)

\* a variant of the except clauses of commit_check that does not look for 'ok'
CommitCheckFailureNoWarnings(req, err) ==
    IF IsInstance(err, "RpcError")
    THEN Raise(req, DomainExc("CommitError", err.cmd, err.rsp, Absent))
    ELSE IF ~HasAttr(err, "xml") THEN Raise(req, AttributeError("xml"))
    ELSE Return(req, RpcErrorDict(Get(err.xml)))

\* the except clauses of commit_check, lines 160-169
CommitCheckFailure(req, err) ==
    IF IsInstance(err, "RpcError")
    THEN IF Find(Get(err.rsp), "ok") THEN Return(req, PyTrue)
         ELSE Raise(req, DomainExc("CommitError", err.cmd, err.rsp, Absent))
    ELSE IF ~HasAttr(err, "xml") THEN Raise(req, AttributeError("xml"))
    ELSE Return(req, RpcErrorDict(Get(err.xml)))

\* Config.commit_check()
CommitCheck(rpc) ==
    LET req == <<CommitRequest(<<>>, [check |-> Some(TRUE)])>>
    IN IF rpc.ok THEN Return(req, PyTrue)
       ELSE CommitCheckFailure(req, rpc.err)

CommitCall(comment, confirm, timeout, sync, force_sync, full, detail) ==
    [op |-> "commit", comment |-> comment, confirm |-> confirm,
     timeout |-> timeout, sync |-> sync, force_sync |-> force_sync,
     full |-> full, detail |-> detail]

Comments == {Absent, Some(PyStr(<<"x">>))}
Confirms == {Absent, Some(PyTrue)} \cup {Some(PyInt(n)) : n \in 1..MaxConfirm}
Timeouts == {Absent, Some(PyInt(30))}

\* the answers to commit_configuration, lock_configuration and
\* unlock_configuration.  JXML.remove_namespaces and JXML.rpc_error are applied
\* to etree elements only: the xml attribute of an error they are handed is an
\* element or missing
RpcOutcomes == {RpcOk(Reply)} \cup {RpcRaise(e) : e \in RpcErrors}
ElementRpcOutcomes ==
    {o \in RpcOutcomes : ~o.ok /\ Has(o.err.xml) => Get(o.err.xml).element}

-----------------------------------------------------------------------------
(* lock, unlock *)

\* the except clause of lock (cls LockError) and of unlock (cls UnlockError)
LockFailure(cls, req, err) ==
    IF IsInstance(err, "RpcError")
    THEN Raise(req, DomainExc(cls, Absent, err.rsp, Absent))
    ELSE IF ~HasAttr(err, "xml") THEN Raise(req, AttributeError("xml"))
    ELSE Raise(req, DomainExc(cls, Absent, Some(RemoveNamespaces(Get(err.xml))), Absent))

\* Config.lock()
Lock(rpc) ==
    LET req == <<[rpc |-> "lock_configuration"]>>
    IN IF rpc.ok THEN Return(req, PyTrue) ELSE LockFailure("LockError", req, rpc.err)

\* Config.unlock()
Unlock(rpc) ==
    LET req == <<[rpc |-> "unlock_configuration"]>>
    IN IF rpc.ok THEN Return(req, PyTrue) ELSE LockFailure("UnlockError", req, rpc.err)

-----------------------------------------------------------------------------
(* diff, rollback *)

MinRollbackId == 0
MaxRollbackId == 49

\* a variant of the range test that rejects the last id of the range
InvalidRollbackExclusive(rb_id) == rb_id < MinRollbackId \/ rb_id >= MaxRollbackId

\* rb_id < 0 or rb_id > 49
InvalidRollback(rb_id) == rb_id < MinRollbackId \/ rb_id > MaxRollbackId

InvalidRollbackError(rb_id) ==
    PyExc("ValueError", "Invalid rollback #", Str(PyInt(rb_id)))

\* the reply to get_configuration: output is the text of its
\* configuration-output child, Absent when the reply has no such child
DiffReply(output) ==
    [element |-> TRUE, ns |-> FALSE, tags |-> {}, output |-> output]
DiffOutputs == {Absent, Some(<<"\n">>), Some(<<"x", "\n">>), Some(<<>>)}
DiffRpcOutcomes ==
    {RpcOk(DiffReply(o)) : o \in DiffOutputs} \cup {RpcRaise(e) : e \in RpcErrors}

\* Config.diff(rb_id)
Diff(rb_id, rpc) ==
    IF InvalidRollback(rb_id) THEN Raise(<<>>, InvalidRollbackError(rb_id))
    ELSE LET req == <<[rpc |-> "get_configuration", compare |-> "rollback",
                       rollback |-> Str(PyInt(rb_id)), format |-> "text"]>>
         IN IF ~rpc.ok THEN Raise(req, rpc.err)
            ELSE IF ~Has(rpc.doc.output) THEN Raise(req, AttributeError("text"))
            ELSE IF Get(rpc.doc.output) = <<"\n">> THEN Return(req, PyNone)
            ELSE Return(req, PyStr(Get(rpc.doc.output)))

\* Config.rollback(rb_id)
Rollback(rb_id, rpc) ==
    IF InvalidRollback(rb_id) THEN Raise(<<>>, InvalidRollbackError(rb_id))
    ELSE LET req == <<[rpc |-> "load_configuration", compare |-> "rollback",
                       rollback |-> Str(PyInt(rb_id))]>>
         IN IF ~rpc.ok THEN Raise(req, rpc.err)
            ELSE Return(req, PyTrue)

RollbackIds == (MinRollbackId - IdMargin)..(MaxRollbackId + IdMargin)

-----------------------------------------------------------------------------
(* rescue *)

\* the reply to a rescue RPC: element is FALSE when the reply is not an XML
\* element (a bare True for an empty reply), output is the text at
\* configuration-information/configuration-output, Absent when there is none
RescueReply(element, output) ==
    [element |-> element, ns |-> FALSE, tags |-> {}, output |-> output]
RescueReplies ==
    {RescueReply(TRUE, Absent), RescueReply(TRUE, Some(<<"x", "\n">>)),
     RescueReply(FALSE, Absent)}
RescueRpcOutcomes ==
    {RpcOk(d) : d \in RescueReplies} \cup {RpcRaise(e) : e \in RpcErrors}

\* a variant of _rescue_get without the try / except
RescueGetNoTry(format, rpc) ==
    LET req == <<[rpc |-> "get_rescue_information", format |-> format]>>
    IN IF ~rpc.ok THEN Raise(req, rpc.err)
       ELSE IF format = "text"
       THEN IF ~rpc.doc.element THEN Raise(req, AttributeError("findtext"))
            ELSE IF Has(rpc.doc.output) THEN Return(req, PyStr(Get(rpc.doc.output)))
            ELSE Return(req, PyNone)
       ELSE Return(req, DocVal(rpc.doc))

\* _rescue_get: every exception of the call or of findtext gives None
RescueGet(format, rpc) ==
    LET req == <<[rpc |-> "get_rescue_information", format |-> format]>>
    IN IF ~rpc.ok THEN Return(req, PyNone)
       ELSE IF format = "text"
       THEN IF ~rpc.doc.element THEN Return(req, PyNone)
            ELSE IF Has(rpc.doc.output) THEN Return(req, PyStr(Get(rpc.doc.output)))
            ELSE Return(req, PyNone)
       ELSE Return(req, DocVal(rpc.doc))

\* _rescue_save
RescueSave(rpc) ==
    LET req == <<[rpc |-> "request_save_rescue_configuration"]>>
    IN IF rpc.ok THEN Return(req, PyTrue) ELSE Raise(req, rpc.err)

\* _rescue_delete
RescueDelete(rpc) ==
    LET req == <<[rpc |-> "request_delete_rescue_configuration"]>>
    IN IF rpc.ok THEN Return(req, PyTrue) ELSE Raise(req, rpc.err)

\* _rescue_reload: the reply itself, or False on any exception
RescueReload(rpc) ==
    LET req == <<[rpc |-> "load_configuration", rescue |-> "rescue"]>>
    IN IF rpc.ok THEN Return(req, DocVal(rpc.doc)) ELSE Return(req, PyFalse)

\* _unsupported_action
UnsupportedAction(action) == PyExc("ValueError", "unsupported action: {0}", <<action>>)

\* Config.rescue(action, format): the dispatch of lines 602-607
Rescue(action, format, rpc) ==
    IF action = "get" THEN RescueGet(format, rpc)
    ELSE IF action = "save" THEN RescueSave(rpc)
    ELSE IF action = "delete" THEN RescueDelete(rpc)
    ELSE IF action = "reload" THEN RescueReload(rpc)
    ELSE Raise(<<>>, UnsupportedAction(action))

RescueActions == {"get", "save", "delete", "reload", "bogus", "GET", ""}
RescueFormats == {"text", "xml"}

-----------------------------------------------------------------------------
(* The state machine: one method call per behaviour *)

NoCall == [op |-> "none"]
NoOutcome == [kind |-> "none"]

Init ==
    /\ pc = "idle"
    /\ call = NoCall
    /\ rpcs = <<>>
    /\ answer = Absent
    /\ outcome = NoOutcome

\* the call c, answered rpc by the device when it got that far, ended as r
Finish(c, rpc, r) ==
    /\ pc' = "done"
    /\ call' = c
    /\ rpcs' = r.rpcs
    /\ answer' = IF r.rpcs = <<>> THEN Absent ELSE Some(rpc)
    /\ outcome' = [kind |-> r.kind, val |-> r.val, exc |-> r.exc]

DoLoad ==
    /\ pc = "idle"
    /\ \E src \in LoadSources, format \in FormatArgs, overwrite \in BOOLEAN,
          merge \in BOOLEAN, env \in LoadEnvs :
          LET c == LoadCall(src[1], format, overwrite, merge, src[2], src[3], src[4])
          IN Finish(c, env.rpc, Load(c, env))

DoCommit ==
    /\ pc = "idle"
    /\ \E comment \in Comments, confirm \in Confirms, timeout \in Timeouts,
          sync \in BOOLEAN, force_sync \in BOOLEAN, full \in BOOLEAN,
          detail \in BOOLEAN, rpc \in RpcOutcomes :
          LET c == CommitCall(comment, confirm, timeout, sync, force_sync, full, detail)
          IN Finish(c, rpc, Commit(c, rpc))

DoCommitCheck ==
    /\ pc = "idle"
    /\ \E rpc \in ElementRpcOutcomes : Finish([op |-> "commit_check"], rpc, CommitCheck(rpc))

DoLock ==
    /\ pc = "idle"
    /\ \E rpc \in ElementRpcOutcomes : Finish([op |-> "lock"], rpc, Lock(rpc))

DoUnlock ==
    /\ pc = "idle"
    /\ \E rpc \in ElementRpcOutcomes : Finish([op |-> "unlock"], rpc, Unlock(rpc))

DoDiff ==
    /\ pc = "idle"
    /\ \E rb_id \in RollbackIds, rpc \in DiffRpcOutcomes :
          Finish([op |-> "diff", rb_id |-> rb_id], rpc, Diff(rb_id, rpc))

DoRollback ==
    /\ pc = "idle"
    /\ \E rb_id \in RollbackIds, rpc \in RpcOutcomes :
          Finish([op |-> "rollback", rb_id |-> rb_id], rpc, Rollback(rb_id, rpc))

DoRescue ==
    /\ pc = "idle"
    /\ \E action \in RescueActions, format \in RescueFormats, rpc \in RescueRpcOutcomes :
          Finish([op |-> "rescue", action |-> action, format |-> format], rpc,
                 Rescue(action, format, rpc))

Next ==
    \/ DoLoad
    \/ DoCommit
    \/ DoCommitCheck
    \/ DoLock
    \/ DoUnlock
    \/ DoDiff
    \/ DoRollback
    \/ DoRescue

Spec == Init /\ [][Next]_vars

-----------------------------------------------------------------------------
(* Vocabulary of the properties of load *)

Loaded == pc = "done" /\ call.op = "load"
Transmitted == Loaded /\ rpcs # <<>>
Raised(e) == outcome.kind = "raise" /\ outcome.exc = e

\* the file or template whose text a load call without direct content uses
FromFile == ~Has(call.vargs) /\ (Has(call.path) \/ Has(call.template_path) \/ Has(call.template))
UsedPath ==
    IF Has(call.path) THEN Get(call.path)
    ELSE IF Has(call.template_path) THEN Get(call.template_path)
    ELSE Get(call.template)
ReadFailed == Raised(IOError) \/ Raised(TemplateError)
DirectString == Has(call.vargs) /\ Get(call.vargs).kind = "str"

\* the extension table of the interface: .xml is structured, .conf .text .txt
\* are text, .set is set-style
ExtTable ==
    [e \in {"xml", "conf", "text", "txt", "set"} |->
        IF e = "xml" THEN "xml" ELSE IF e = "set" THEN "set" ELSE "text"]
KnownExt(ext) == Len(ext) = 2 /\ ext[1] = "." /\ ext[2] \in DOMAIN ExtTable

\* the shape of a string: the first of the three tests that matches
Shape(s) ==
    IF ReXml(s) THEN "xml" ELSE IF ReSet(s) THEN "set"
    ELSE IF ReText(s) THEN "text" ELSE "indeterminate"

\* the format a load call resolves to, "none" when it resolves to none: the
\* explicit format; else for direct content its shape (an XML object is
\* structured); else the table entry of the extension of the file that was read
ResolvedFormat ==
    IF Has(call.format) THEN Get(call.format)
    ELSE IF Has(call.vargs)
    THEN (IF DirectString
          THEN (IF Shape(Get(call.vargs).text) = "indeterminate" THEN "none"
                ELSE Shape(Get(call.vargs).text))
          ELSE "xml")
    ELSE IF FromFile /\ ~ReadFailed /\ KnownExt(SplitExt(UsedPath))
    THEN ExtTable[SplitExt(UsedPath)[2]]
    ELSE "none"

WireFormat(f) == IF f = "set" THEN "text" ELSE f

-----------------------------------------------------------------------------
(* C1: in every load request that is transmitted, the action marker and the  *)
(* wire format follow the ordered rules: a set-style format gives action=set *)
(* and wire format text; otherwise overwrite gives action=override;          *)
(* otherwise merge gives no action marker; otherwise action=replace; and for *)
(* structured and text the wire format is the resolved format.               *)
C1_ActionAndFormatRules ==
    Transmitted =>
        /\ ResolvedFormat \in Formats
        /\ rpcs[1].format = WireFormat(ResolvedFormat)
        /\ rpcs[1].action =
              IF ResolvedFormat = "set" THEN Some("set")
              ELSE IF call.overwrite THEN Some("override")
              ELSE IF call.merge THEN Absent
              ELSE Some("replace")

\* a set-style load with merge is transmitted as text with action=set
C1_Witness ==
    /\ Transmitted
    /\ ResolvedFormat = "set" /\ call.merge
    /\ rpcs[1].format = "text" /\ rpcs[1].action = Some("set")

(* C2: a load call with overwrite=true whose format resolves to set-style     *)
(* (explicit format, .set extension, or shape of the string) fails with the   *)
(* conflicting-args error and issues no load RPC; no transmitted request      *)
(* pairs set-style content with action=override.                              *)
C2_SetWithOverwriteRejected ==
    /\ (Loaded /\ call.overwrite /\ ResolvedFormat = "set")
          => (Raised(ConflictingArgs) /\ rpcs = <<>>)
    /\ Transmitted => ~(ResolvedFormat = "set" /\ rpcs[1].action = Some("override"))

\* set-style found from the .set extension of a template, with overwrite
C2_Witness ==
    /\ Loaded /\ call.overwrite /\ ~Has(call.format)
    /\ FromFile /\ ~Has(call.path) /\ ResolvedFormat = "set"
    /\ Raised(ConflictingArgs) /\ rpcs = <<>>

(* C3, as stated: every load request transmitted for a call with merge=true   *)
(* has no action marker, whatever overwrite and the resolved format are.      *)
C3_MergeAlwaysOmitsAction ==
    (Transmitted /\ call.merge) => rpcs[1].action = Absent

(* C3, amended: a load request transmitted for a call with merge=true has no  *)
(* action marker when overwrite is not set and the resolved format is not     *)
(* set-style; with overwrite=true it carries action=override and with a      *)
(* set-style format it carries action=set.                                    *)
C3_MergeOmitsActionUnlessOverridden ==
    (Transmitted /\ call.merge) =>
        /\ (~call.overwrite /\ ResolvedFormat # "set") => rpcs[1].action = Absent
        /\ call.overwrite => rpcs[1].action = Some("override")
        /\ ResolvedFormat = "set" => rpcs[1].action = Some("set")

C3_Witness ==
    /\ Transmitted /\ call.merge /\ ~call.overwrite
    /\ ResolvedFormat = "text" /\ rpcs[1].action = Absent

(* C4: the format follows the precedence explicit format > extension > shape. *)
(* With an explicit format neither the extension nor the shape decides        *)
(* anything: the call never fails with the unknown-extension or the           *)
(* unresolved-format error and the request carries the explicit format.       *)
(* Without one, a file or template that was read is resolved by its extension *)
(* alone (an unknown extension raises the error naming it, with no remote     *)
(* call), and a string passed directly by its shape alone.                    *)
C4_FormatPrecedence ==
    Loaded =>
        /\ Has(call.format) =>
              /\ ~Raised(UnresolvedFormat)
              /\ ~(FromFile /\ Raised(UnknownExtension(SplitExt(UsedPath))))
              /\ Transmitted => rpcs[1].format = WireFormat(Get(call.format))
        /\ (~Has(call.format) /\ FromFile /\ ~ReadFailed) =>
              IF KnownExt(SplitExt(UsedPath))
              THEN /\ ~Raised(UnknownExtension(SplitExt(UsedPath)))
                   /\ Transmitted =>
                        rpcs[1].format = WireFormat(ExtTable[SplitExt(UsedPath)[2]])
              ELSE /\ Raised(UnknownExtension(SplitExt(UsedPath)))
                   /\ rpcs = <<>>
        /\ (~Has(call.format) /\ DirectString) =>
              IF Shape(Get(call.vargs).text) = "indeterminate"
              THEN Raised(UnresolvedFormat) /\ rpcs = <<>>
              ELSE Transmitted =>
                      rpcs[1].format = WireFormat(Shape(Get(call.vargs).text))

\* a path with an unknown extension, loaded under an explicit format
C4_Witness ==
    /\ Transmitted /\ Has(call.format) /\ FromFile
    /\ ~KnownExt(SplitExt(UsedPath))
    /\ rpcs[1].format = WireFormat(Get(call.format))

(* C5: for a string passed directly with no explicit format the shape tests   *)
(* run in the order structured, set-style, brace-block text and the first     *)
(* match decides; when none matches, load fails with the error asking for an  *)
(* explicit format, issues no load RPC and never falls back to structured.    *)
C5_ShapeOrderAndNoDefault ==
    (Loaded /\ ~Has(call.format) /\ DirectString) =>
        LET s == Get(call.vargs).text
        IN /\ ReXml(s) =>
                 /\ ~Raised(UnresolvedFormat) /\ ~Raised(ConflictingArgs)
                 /\ Transmitted => (rpcs[1].format = "xml" /\ rpcs[1].action # Some("set"))
           /\ (~ReXml(s) /\ ReSet(s)) =>
                 /\ ~Raised(UnresolvedFormat)
                 /\ Transmitted => (rpcs[1].format = "text" /\ rpcs[1].action = Some("set"))
           /\ (~ReXml(s) /\ ~ReSet(s) /\ ReText(s)) =>
                 /\ ~Raised(UnresolvedFormat) /\ ~Raised(ConflictingArgs)
                 /\ Transmitted => (rpcs[1].format = "text" /\ rpcs[1].action # Some("set"))
           /\ (~ReXml(s) /\ ~ReSet(s) /\ ~ReText(s)) =>
                 /\ Raised(UnresolvedFormat)
                 /\ rpcs = <<>>

\* "just a sentence" matches no shape
C5_Witness ==
    /\ Loaded /\ ~Has(call.format) /\ DirectString
    /\ Get(call.vargs).text = <<"x", " ", "x", " ", "x">>
    /\ Raised(UnresolvedFormat) /\ rpcs = <<>>

-----------------------------------------------------------------------------
(* Vocabulary of the properties of the remote call's failures *)

Called(op) == pc = "done" /\ call.op = op
Failed == Has(answer) /\ ~Get(answer).ok
Err == Get(answer).err
Returned(v) == outcome.kind = "return" /\ outcome.val = v
Structured == Failed /\ IsInstance(Err, "RpcError")
TimedOut == Failed /\ IsInstance(Err, "RpcTimeoutError")
\* a transport error that carries a diagnostic document
Diagnosed == Failed /\ Has(Err.xml) /\ Get(Err.xml).element
WarningsOnly == "ok" \in Get(Err.rsp).tags
CommitErrorOf(e) ==
    /\ outcome.kind = "raise"
    /\ outcome.exc.cls = "CommitError"
    /\ outcome.exc.cmd = e.cmd
    /\ outcome.exc.rsp = e.rsp

(* C6, as stated: a structured protocol error raised by the commit RPC        *)
(* returns success when its response contains an 'ok' marker and otherwise    *)
(* raises CommitError carrying the error's command and response, in commit()  *)
(* and in the same way in commit_check().                                     *)
C6_StructuredErrorDisambiguated ==
    ((Called("commit") \/ Called("commit_check")) /\ Structured) =>
        IF WarningsOnly THEN Returned(PyTrue) ELSE CommitErrorOf(Err)

(* C6, amended: a structured protocol error that is not a timeout error,      *)
(* raised by the commit RPC, returns success when its response contains an    *)
(* 'ok' marker and otherwise raises CommitError carrying the error's command  *)
(* and response; commit_check() disambiguates these errors in exactly the     *)
(* same way as commit().                                                      *)
C6_NonTimeoutStructuredErrorDisambiguated ==
    ((Called("commit") \/ Called("commit_check")) /\ Structured /\ ~TimedOut) =>
        IF WarningsOnly THEN Returned(PyTrue) ELSE CommitErrorOf(Err)

\* commit() raises CommitError for a protocol error without the marker
C6_Witness ==
    /\ Called("commit") /\ Structured /\ ~TimedOut /\ ~WarningsOnly
    /\ CommitErrorOf(Err) /\ Has(outcome.exc.cmd) /\ Has(outcome.exc.rsp)

(* C7: when the commit RPC times out, commit() raises the timeout error       *)
(* itself, unchanged (not success, not CommitError, although the timeout      *)
(* error is a structured protocol error too), and the commit RPC was issued   *)
(* exactly once.                                                              *)
C7_TimeoutPropagatesUnchanged ==
    (Called("commit") /\ TimedOut) =>
        /\ Raised(Err)
        /\ Len(rpcs) = 1
        /\ rpcs[1].rpc = "commit_configuration"

\* a timeout error whose response would have read as warnings-only
C7_Witness ==
    /\ Called("commit") /\ TimedOut /\ Structured /\ WarningsOnly
    /\ Raised(Err) /\ Len(rpcs) = 1

(* C8: in lock, unlock, load, commit and commit_check, an exception of the    *)
(* remote call that is neither a structured protocol error nor a transport    *)
(* error carrying a diagnostic document is re-raised to the caller            *)
(* unmodified.                                                                *)
C8_UnrecognizedReraised ==
    ((\E op \in {"lock", "unlock", "load", "commit", "commit_check"} : Called(op))
        /\ Failed /\ ~Structured /\ ~Diagnosed)
        => Raised(Err)

(* C9: commit_check() turns every failure of the check RPC that is not a      *)
(* structured protocol error into a mapping of parsed error fields and        *)
(* returns it; the only exception it raises is CommitError, for a structured  *)
(* protocol error whose response lacks the 'ok' marker.                       *)
C9_CommitCheckReturnsMapping ==
    Called("commit_check") =>
        /\ (Failed /\ ~Structured) =>
              (outcome.kind = "return" /\ outcome.val.type = "dict")
        /\ outcome.kind = "raise" =>
              (Structured /\ ~WarningsOnly /\ CommitErrorOf(Err))

-----------------------------------------------------------------------------
(* Vocabulary of the properties of the commit options *)

DigitValue(ch) == CHOOSE d \in 0..9 : DigitChar(d) = ch

RECURSIVE DecimalValue(_)
DecimalValue(digits) ==
    IF Len(digits) = 1 THEN DigitValue(digits[1])
    ELSE 10 * DecimalValue(SubSeq(digits, 1, Len(digits) - 1))
            + DigitValue(digits[Len(digits)])

\* the confirm option is a concrete minute count, not the use-default signal
MinuteCount == Has(call.confirm) /\ Get(call.confirm).type = "int"

-----------------------------------------------------------------------------
(* C11: diff(id) and rollback(id) issue their remote call if and only if      *)
(* 0 <= id <= 49: an id below 0 or above 49 raises the validation error with  *)
(* no remote call, and every id from 0 to 49, both ends included, issues      *)
(* exactly one remote call, which carries that id.                            *)
C11_RollbackIdRange ==
    (Called("diff") \/ Called("rollback")) =>
        IF call.rb_id < 0 \/ call.rb_id > 49
        THEN /\ rpcs = <<>>
             /\ outcome.kind = "raise"
             /\ outcome.exc.cls = "ValueError"
        ELSE /\ Len(rpcs) = 1
             /\ rpcs[1].rpc = (IF call.op = "diff" THEN "get_configuration"
                               ELSE "load_configuration")
             /\ rpcs[1].compare = "rollback"
             /\ DecimalValue(rpcs[1].rollback) = call.rb_id

\* the last id of the range is accepted by rollback
C11_Witness ==
    /\ Called("rollback") /\ call.rb_id = 49
    /\ Len(rpcs) = 1 /\ rpcs[1].rollback = <<"4", "9">>
    /\ Returned(PyTrue)

-----------------------------------------------------------------------------
(* Vocabulary of the properties of the content sources of load *)

SourceCount ==
    Cardinality({i \in 1..4 :
        Has(<<call.vargs, call.path, call.template_path, call.template>>[i])})

\* the same call with every source after the first present one left out
FirstSourceOnly ==
    [call EXCEPT
        !.path = IF Has(call.vargs) THEN Absent ELSE @,
        !.template_path = IF Has(call.vargs) \/ Has(call.path) THEN Absent ELSE @,
        !.template = IF Has(call.vargs) \/ Has(call.path) \/ Has(call.template_path)
                     THEN Absent ELSE @]

(* C13: load uses at most one content source and issues at most one load RPC. *)
(* When several of direct content, path, template_path and template are       *)
(* supplied, the call ends as the call with only the first of them (in that   *)
(* order) can end: the request carries the direct content when there is one,  *)
(* else a read failure is that of the first file source.  When none is        *)
(* supplied and no validation error was raised before, the call raises the    *)
(* 'Unhandled load request' error with no remote call.                        *)
C13_OneSourcePerLoad ==
    Loaded =>
        /\ Len(rpcs) <= 1
        /\ Transmitted => rpcs[1].rpc = "load_config"
        /\ SourceCount >= 2 =>
              /\ \E env \in LoadEnvs :
                    LET r == Load(FirstSourceOnly, env)
                    IN /\ r.rpcs = rpcs
                       /\ r.kind = outcome.kind
                       /\ r.val = outcome.val
                       /\ r.exc = outcome.exc
              /\ (Has(call.vargs) /\ Transmitted) =>
                    rpcs[1].contents.text = Get(call.vargs).text
              /\ Has(call.vargs) => ~ReadFailed
              /\ (~Has(call.vargs) /\ Has(call.path)) => ~Raised(TemplateError)
              /\ (~Has(call.vargs) /\ ~Has(call.path)) => ~Raised(IOError)
        /\ SourceCount = 0 =>
              /\ rpcs = <<>>
              /\ IF Has(call.format) /\ Get(call.format) = "set" /\ call.overwrite
                 THEN Raised(ConflictingArgs)
                 ELSE Raised(UnhandledLoad)

\* all four sources supplied: the direct content is what is loaded
C13_Witness ==
    /\ Transmitted /\ SourceCount = 4 /\ ~Has(call.format)
    /\ rpcs[1].contents = Get(call.vargs)
    /\ rpcs[1].format = "text" /\ rpcs[1].action = Some("replace")

====
